---- MODULE Spec2Model ----
(***************************************************************************)
(* Model of scripts/2d_align_driver.py: the command-line driver that runs  *)
(* the 2D alignment pipeline (filter_tiles -> create_sift_features ->      *)
(* match_sift_features -> json_concat -> optimize_montage_transform) in a  *)
(* workspace directory.                                                    *)
(*                                                                         *)
(* A path is a sequence of tokens: "/" is the separator and every other    *)
(* token is one whole path segment ("a", ".", "filterd", ...).  The empty  *)
(* sequence is the empty string.                                           *)
(***************************************************************************)
EXTENDS Integers, Sequences, FiniteSets, TLC

VARIABLES args, writable, dirs, fs, init, pc, ip, calls, active, completed, fate, memo

vars == <<args, writable, dirs, fs, init, pc, ip, calls, active, completed, fate, memo>>

(***************************************************************************)
(* Bounds of the model.                                                    *)
(***************************************************************************)
\* largest number of tiles in the input tile spec
MaxTiles == 1
\* deepest workspace directory, in path segments
MaxDepth == 2

(***************************************************************************)
(* Paths.                                                                  *)
(***************************************************************************)
Sep == "/"

\* os.path.join(a, b) of posixpath
Join(a, b) ==
    IF b # <<>> /\ b[1] = Sep THEN b
    ELSE IF a = <<>> \/ a[Len(a)] = Sep THEN a \o b
    ELSE a \o <<Sep>> \o b

IsSegment(t) == t # Sep /\ t # "."

\* the location a relative path resolves to: its segments, without the
\* separators and the "." segments
Norm(p) == SelectSeq(p, IsSegment)

IsPrefix(p, q) == Len(p) <= Len(q) /\ SubSeq(q, 1, Len(p)) = p

\* the directory itself and every parent segment of it
Ancestors(d) == {SubSeq(d, 1, k) : k \in 0..Len(d)}

\* os.path.exists(p) for a directory path p, in a world whose directories are d
Exists(d, p) == p # <<>> /\ Norm(p) \in d

(***************************************************************************)
(* Command line (argparse).                                                *)
(***************************************************************************)
DefaultWorkspace == <<".">>
DefaultOutput == <<"output.json">>
DefaultJar == <<"../target/render-0.0.1-SNAPSHOT.jar">>
DefaultBox == <<"-maxint-1 maxint -maxint-1 maxint">>

SegmentNames == <<"a", "b", "c", "d">>

RECURSIVE DirOfDepth(_)
DirOfDepth(n) ==
    IF n = 1 THEN <<SegmentNames[1]>>
    ELSE DirOfDepth(n - 1) \o <<Sep, SegmentNames[n]>>

WorkspaceDirs ==
    {<<>>, DefaultWorkspace, <<SegmentNames[1], Sep>>}
        \cup {DirOfDepth(n) : n \in 1..MaxDepth}

TileFiles ==
    {<<"tiles.json">>, <<"filterd">>,
     <<"a", Sep, "filterd">>, <<"a", Sep, "optimized_montage.json">>}

OutputFiles == {DefaultOutput, <<"a", Sep, "optimized_montage.json">>}
JarFiles == {DefaultJar, <<"other.jar">>}
BoundingBoxes == {DefaultBox, <<"1000 2000 1000 2000">>}

Args ==
    [tiles_fname : TileFiles, workspace_dir : WorkspaceDirs, render : BOOLEAN,
     output_file_name : OutputFiles, jar_file : JarFiles,
     bounding_box : BoundingBoxes]

(***************************************************************************)
(* The module body: path construction and the stage calls, in order.       *)
(***************************************************************************)
filter_dir(a) == Join(a.workspace_dir, <<"filterd">>)
sift_dir(a) == Join(a.workspace_dir, <<"sifts">>)
match_dir(a) == Join(a.workspace_dir, <<"sift_matches">>)
correspondent_fname(a) == Join(a.workspace_dir, <<"all_correspondent.json">>)
\* mutants of optmon_fname: the name of the correspondence file again, and
\* the output file name of the command line
optmon_fname_clash(a) == Join(a.workspace_dir, <<"all_correspondent.json">>)
optmon_fname_from_output(a) == Join(a.workspace_dir, a.output_file_name)
optmon_fname(a) == Join(a.workspace_dir, <<"optimized_montage.json">>)

PipelineCalls(a, second, third, optimizer_spec, sift_jar) ==
    LET sift == [stage |-> "create_sift_features",
                 argv |-> <<filter_dir(a), sift_dir(a), sift_jar>>]
        match == [stage |-> "match_sift_features",
                  argv |-> <<filter_dir(a), sift_dir(a), match_dir(a), a.jar_file>>]
    IN << [stage |-> "filter_tiles",
           argv |-> <<a.tiles_fname, filter_dir(a), a.bounding_box>>],
          IF second = "create_sift_features" THEN sift ELSE match,
          IF third = "match_sift_features" THEN match ELSE sift,
          [stage |-> "json_concat",
           argv |-> <<match_dir(a), correspondent_fname(a)>>],
          [stage |-> "optimize_montage_transform",
           argv |-> <<correspondent_fname(a), optimizer_spec, optmon_fname(a),
                      a.jar_file>>] >>

\* mutants of Pipeline: matching called before feature extraction; the
\* optimizer given the filtered directory; feature extraction given the output
\* file name where the jar belongs
PipelineMatchFirst(a) ==
    PipelineCalls(a, "match_sift_features", "create_sift_features",
                  a.tiles_fname, a.jar_file)
PipelineFilteredToOptimizer(a) ==
    PipelineCalls(a, "create_sift_features", "match_sift_features",
                  filter_dir(a), a.jar_file)
PipelineOutputAsJar(a) ==
    PipelineCalls(a, "create_sift_features", "match_sift_features",
                  a.tiles_fname, a.output_file_name)

Pipeline(a) ==
    << [stage |-> "filter_tiles",
        argv |-> <<a.tiles_fname, filter_dir(a), a.bounding_box>>],
       [stage |-> "create_sift_features",
        argv |-> <<filter_dir(a), sift_dir(a), a.jar_file>>],
       [stage |-> "match_sift_features",
        argv |-> <<filter_dir(a), sift_dir(a), match_dir(a), a.jar_file>>],
       [stage |-> "json_concat",
        argv |-> <<match_dir(a), correspondent_fname(a)>>],
       [stage |-> "optimize_montage_transform",
        argv |-> <<correspondent_fname(a), a.tiles_fname, optmon_fname(a),
                   a.jar_file>>] >>

\* mutant of NeedsMakedirs: os.makedirs without the os.path.exists test
NeedsMakedirsAlways(d, a) == TRUE

\* the workspace is created only when os.path.exists says it is not there
NeedsMakedirs(d, a) == ~Exists(d, a.workspace_dir)

\* os.makedirs(p) raises for the empty path, for an existing leaf and for a
\* path it may not create
MakedirsRaises(d, w, p) == p = <<>> \/ Norm(p) \in d \/ ~w

\* the directories after os.makedirs(p): the leaf and every missing parent
Makedirs(d, p) == d \cup Ancestors(Norm(p))

\* mutant of OnRaise: the exception is swallowed and the script goes on
OnRaiseSwallowed(i) ==
    IF i < 5 THEN [pc |-> "call", ip |-> i + 1] ELSE [pc |-> "done", ip |-> i + 1]

\* nothing in the module body catches an exception: the first one ends the
\* interpreter with a traceback and a non-zero exit status
OnRaise(i) == [pc |-> "failed", ip |-> i]

\* mutant of OnReturn: the script ends before its last call
OnReturnEarly(a, i) ==
    IF i < Len(Pipeline(a)) - 1 THEN [pc |-> "call", ip |-> i + 1]
    ELSE [pc |-> "done", ip |-> i + 1]

\* a call returned: the next statement, or the end of the script
OnReturn(a, i) ==
    IF i < Len(Pipeline(a)) THEN [pc |-> "call", ip |-> i + 1]
    ELSE [pc |-> "done", ip |-> i + 1]

(***************************************************************************)
(* The stages, as the driver sees them: given input paths, a parameter and *)
(* an output path, a stage writes its output and returns, or raises, or    *)
(* never returns.                                                          *)
(***************************************************************************)
StageNames ==
    {"filter_tiles", "create_sift_features", "match_sift_features",
     "json_concat", "optimize_montage_transform", "render"}

InIdx(s) ==
    CASE s = "filter_tiles" -> <<1>>
      [] s = "create_sift_features" -> <<1>>
      [] s = "match_sift_features" -> <<1, 2>>
      [] s = "json_concat" -> <<1>>
      [] s = "optimize_montage_transform" -> <<1, 2>>
      [] OTHER -> <<1>>

OutIdx(s) ==
    CASE s = "filter_tiles" -> 2
      [] s = "create_sift_features" -> 2
      [] s = "match_sift_features" -> 3
      [] s = "json_concat" -> 2
      [] s = "optimize_montage_transform" -> 3
      [] OTHER -> 2

ParamIdx(s) ==
    CASE s = "filter_tiles" -> <<3>>
      [] s = "create_sift_features" -> <<3>>
      [] s = "match_sift_features" -> <<4>>
      [] s = "json_concat" -> <<>>
      [] s = "optimize_montage_transform" -> <<4>>
      [] OTHER -> <<3>>

InPaths(c) == [k \in DOMAIN InIdx(c.stage) |-> c.argv[InIdx(c.stage)[k]]]
OutPath(c) == c.argv[OutIdx(c.stage)]
Params(c) == [k \in DOMAIN ParamIdx(c.stage) |-> c.argv[ParamIdx(c.stage)[k]]]

\* contents of files and directories
NoFile == [stage |-> "none", entries |-> 0, ins |-> <<>>, params |-> <<>>]
Stale == [stage |-> "stale", entries |-> 0, ins |-> <<>>, params |-> <<>>]
TileSpec(n) == [stage |-> "input", entries |-> n, ins |-> <<>>, params |-> <<>>]

\* the paths a run may touch
PathsOf(a) ==
    {Norm(a.tiles_fname), Norm(a.output_file_name)}
        \cup UNION {{Norm(OutPath(Pipeline(a)[k]))} \cup
                    {Norm(InPaths(Pipeline(a)[k])[j]) :
                        j \in DOMAIN InPaths(Pipeline(a)[k])} :
                    k \in DOMAIN Pipeline(a)}

OutputsOf(a) == {Norm(OutPath(Pipeline(a)[k])) : k \in DOMAIN Pipeline(a)}

Read(f, p) == f[Norm(p)]

\* what a stage is a function of: the contents of its inputs and its parameter
KeyOf(f, c) ==
    [stage |-> c.stage,
     ins |-> [k \in DOMAIN InPaths(c) |-> Read(f, InPaths(c)[k])],
     params |-> Params(c)]

\* the filter keeps the tiles that intersect the box; the tiles of the model
\* all lie inside [0,100]x[0,100]
Intersects(box) == box = DefaultBox

StageResult(key) ==
    [stage |-> key.stage,
     entries |-> IF key.stage = "filter_tiles" /\ ~Intersects(key.params[1])
                 THEN 0 ELSE key.ins[1].entries,
     ins |-> key.ins,
     params |-> key.params]

Fates == {"ok", "fail", "hang"}

\* a stage cannot read an input that is not there; otherwise it behaves the
\* way it behaved before on the same inputs, and freely on new ones
FatesOf(m, key) ==
    IF \E k \in DOMAIN key.ins : key.ins[k] = NoFile THEN {"fail"}
    ELSE IF \E e \in m : e.key = key THEN {e.fate : e \in {x \in m : x.key = key}}
    ELSE Fates

(***************************************************************************)
(* State.                                                                  *)
(***************************************************************************)
Runs == DOMAIN args

Terminal(r) ==
    \/ pc[r] \in {"done", "failed"}
    \/ pc[r] = "wait" /\ fate[r] = "hang"

\* runs are independent processes in separate worlds; they are taken one
\* after the other
Turn(r) == \A q \in Runs : q < r => Terminal(q)

\* the worlds a run with arguments a may start in: the tile spec is there or
\* not, the workspace is there (with or without the artifacts of an earlier
\* run) or only some of its parents are
Worlds(a) ==
    {w \in [depth : 0..Len(Norm(a.workspace_dir)),
            tiles : {NoFile} \cup {TileSpec(n) : n \in 0..MaxTiles},
            prior : BOOLEAN,
            writable : BOOLEAN] :
        w.prior => w.depth = Len(Norm(a.workspace_dir)) /\ a.workspace_dir # <<>>}

\* the directories of a world: the first w.depth segments of the workspace
\* directory, and the directory of the tile spec when the tile spec is there
DirsOf(a, w) ==
    Ancestors(SubSeq(Norm(a.workspace_dir), 1, w.depth))
        \cup (IF w.tiles = NoFile THEN {}
              ELSE Ancestors(SubSeq(Norm(a.tiles_fname), 1,
                                    Len(Norm(a.tiles_fname)) - 1)))

FilesOf(a, w) ==
    [p \in PathsOf(a) |->
        IF p = Norm(a.tiles_fname) THEN w.tiles
        ELSE IF w.prior /\ p \in OutputsOf(a) THEN Stale
        ELSE NoFile]

InitRuns(R, A, W) ==
    /\ args = A
    /\ writable = [r \in R |-> W[r].writable]
    /\ dirs = [r \in R |-> DirsOf(A[r], W[r])]
    /\ fs = [r \in R |-> FilesOf(A[r], W[r])]
    /\ init = [r \in R |-> [dirs |-> DirsOf(A[r], W[r]), fs |-> FilesOf(A[r], W[r])]]
    /\ pc = [r \in R |-> "ensure"]
    /\ ip = [r \in R |-> 0]
    /\ calls = [r \in R |-> <<>>]
    /\ active = [r \in R |-> {}]
    /\ completed = [r \in R |-> <<>>]
    /\ fate = [r \in R |-> "none"]
    /\ memo = {}

Init ==
    \E a \in Args : \E w \in Worlds(a) :
        InitRuns({1}, [r \in {1} |-> a], [r \in {1} |-> w])

\* a world with nothing of an earlier run at the output locations
Fresh(a, w) == ~w.prior /\ \A p \in OutputsOf(a) : FilesOf(a, w)[p] = NoFile

\* one run with the default output file name and jar and no render flag
InitDefaults ==
    \E a \in Args : \E w \in Worlds(a) :
        /\ ~a.render
        /\ a.output_file_name = DefaultOutput
        /\ a.jar_file = DefaultJar
        /\ InitRuns({1}, [r \in {1} |-> a], [r \in {1} |-> w])

\* the command lines and worlds the two-run specifications start from
PairArgs ==
    {a \in Args :
        /\ a.workspace_dir # <<>>
        /\ a.tiles_fname \in {<<"tiles.json">>, <<"a", Sep, "optimized_montage.json">>}}

PairWorlds(a) ==
    {w \in Worlds(a) :
        /\ w.writable
        /\ w.depth \in {0, Len(Norm(a.workspace_dir))}
        /\ w.tiles \in {NoFile, TileSpec(MaxTiles)}}

\* two runs of the driver, each in a world of its own, the stages being the
\* same functions in both: the second command line differs from the first in
\* the output file name and the jar only, and both start in the same world
InitVariant ==
    \E a \in PairArgs : \E w \in PairWorlds(a) :
        \E o \in OutputFiles, j \in JarFiles :
            /\ ~a.render
            /\ <<o, j>> # <<a.output_file_name, a.jar_file>>
            /\ InitRuns({1, 2},
                        <<a, [a EXCEPT !.output_file_name = o, !.jar_file = j]>>,
                        <<w, w>>)

\* two runs of the driver with the same tile spec, box and jar, each into a
\* fresh workspace of its own
InitRerun ==
    \E a \in PairArgs : \E w \in PairWorlds(a) :
        \E d \in WorkspaceDirs \ {<<>>}, o \in OutputFiles :
            LET b == [a EXCEPT !.workspace_dir = d, !.output_file_name = o]
                v == [w EXCEPT !.depth = 0]
            IN /\ w.depth = 0
               /\ Fresh(a, w)
               /\ Fresh(b, v)
               /\ InitRuns({1, 2}, <<a, b>>, <<w, v>>)

(***************************************************************************)
(* Steps of a run.                                                         *)
(***************************************************************************)
\* lines 45-46
EnsureWorkspace(r) ==
    /\ Turn(r)
    /\ pc[r] = "ensure"
    /\ IF NeedsMakedirs(dirs[r], args[r])
       THEN IF MakedirsRaises(dirs[r], writable[r], args[r].workspace_dir)
            THEN /\ pc' = [pc EXCEPT ![r] = OnRaise(0).pc]
                 /\ ip' = [ip EXCEPT ![r] = OnRaise(0).ip]
                 /\ dirs' = dirs
            ELSE /\ pc' = [pc EXCEPT ![r] = "call"]
                 /\ ip' = [ip EXCEPT ![r] = 1]
                 /\ dirs' = [dirs EXCEPT ![r] = Makedirs(@, args[r].workspace_dir)]
       ELSE /\ pc' = [pc EXCEPT ![r] = "call"]
            /\ ip' = [ip EXCEPT ![r] = 1]
            /\ dirs' = dirs
    /\ UNCHANGED <<args, writable, fs, init, calls, active, completed, fate, memo>>

\* the call statement of stage ip: the stage starts and the driver blocks in it
Invoke(r) ==
    /\ Turn(r)
    /\ pc[r] = "call"
    /\ LET c == Pipeline(args[r])[ip[r]]
           key == KeyOf(fs[r], c)
       IN /\ calls' = [calls EXCEPT ![r] = Append(@, c)]
          /\ active' = [active EXCEPT ![r] = @ \cup {c.stage}]
          /\ \E ft \in FatesOf(memo, key) :
                /\ fate' = [fate EXCEPT ![r] = ft]
                /\ memo' = memo \cup {[key |-> key, fate |-> ft]}
    /\ pc' = [pc EXCEPT ![r] = "wait"]
    /\ UNCHANGED <<args, writable, dirs, fs, init, ip, completed>>

\* the stage wrote its output and returned
Return(r) ==
    /\ Turn(r)
    /\ pc[r] = "wait"
    /\ fate[r] = "ok"
    /\ LET c == Pipeline(args[r])[ip[r]]
       IN /\ fs' = [fs EXCEPT ![r][Norm(OutPath(c))] = StageResult(KeyOf(fs[r], c))]
          /\ active' = [active EXCEPT ![r] = @ \ {c.stage}]
          /\ completed' = [completed EXCEPT ![r] = Append(@, c.stage)]
    /\ pc' = [pc EXCEPT ![r] = OnReturn(args[r], ip[r]).pc]
    /\ ip' = [ip EXCEPT ![r] = OnReturn(args[r], ip[r]).ip]
    /\ fate' = [fate EXCEPT ![r] = "none"]
    /\ UNCHANGED <<args, writable, dirs, init, calls, memo>>

\* the stage raised
Raise(r) ==
    /\ Turn(r)
    /\ pc[r] = "wait"
    /\ fate[r] = "fail"
    /\ active' = [active EXCEPT ![r] = @ \ {Pipeline(args[r])[ip[r]].stage}]
    /\ pc' = [pc EXCEPT ![r] = OnRaise(ip[r]).pc]
    /\ ip' = [ip EXCEPT ![r] = OnRaise(ip[r]).ip]
    /\ UNCHANGED <<args, writable, dirs, fs, init, calls, completed, fate, memo>>

EnsureStep == \E r \in Runs : EnsureWorkspace(r)
InvokeStep == \E r \in Runs : Invoke(r)
ReturnStep == \E r \in Runs : Return(r)
RaiseStep == \E r \in Runs : Raise(r)

Next == EnsureStep \/ InvokeStep \/ ReturnStep \/ RaiseStep

Spec == Init /\ [][Next]_vars

\* the interpreter keeps executing, and a stage that returns or raises does so
FairSpec == InitDefaults /\ [][Next]_vars /\ WF_vars(Next)

\* two runs, one after the other
SpecVariant == InitVariant /\ [][Next]_vars
SpecRerun == InitRerun /\ [][Next]_vars

(***************************************************************************)
(* Properties of a run.                                                    *)
(***************************************************************************)
Stages(r) == [i \in DOMAIN calls[r] |-> calls[r][i].stage]

FixedSequence ==
    <<"filter_tiles", "create_sift_features", "match_sift_features",
      "json_concat", "optimize_montage_transform", "render">>

FiveStages == SubSeq(FixedSequence, 1, 5)

\* the location W/name for the workspace directory W of the arguments a
Under(a, name) == Norm(a.workspace_dir) \o <<name>>

\* C1: the stages invoked so far are a prefix of the fixed sequence (so none
\* is invoked twice), every stage but the last invoked one has completed, and
\* at most one stage is running.
StageSequence ==
    \A r \in Runs :
        /\ IsPrefix(Stages(r), FixedSequence)
        /\ completed[r] \in {Stages(r), SubSeq(Stages(r), 1, Len(Stages(r)) - 1)}
        /\ Cardinality(active[r]) <= 1
        /\ active[r] # {} => active[r] = {Stages(r)[Len(Stages(r))]}

StageSequenceWitness ==
    pc[1] = "done" /\ Len(calls[1]) = 5 /\ Len(completed[1]) = 5

\* C2: once a stage invocation fails (the filter stage on a missing tile spec
\* included) the run goes to the failed state and stays there: the failing
\* stage is the last one invoked, nothing more is written, and the run never
\* ends successfully.
HaltOnFailure ==
    /\ [](\A r \in Runs :
            pc[r] = "failed" => active[r] = {} /\ Len(calls[r]) = ip[r])
    /\ [][\A r \in Runs :
            /\ (pc[r] = "wait" /\ fate[r] = "fail")
                  => /\ pc'[r] \in {"wait", "failed"}
                     /\ calls'[r] = calls[r]
                     /\ fs'[r] = fs[r]
            /\ pc[r] = "failed"
                  => pc'[r] = "failed" /\ calls'[r] = calls[r] /\ fs'[r] = fs[r]]_vars

\* the third stage failed after two had completed
HaltOnFailureWitness ==
    /\ pc[1] = "failed"
    /\ fate[1] = "fail"
    /\ Stages(1) = SubSeq(FixedSequence, 1, 3)
    /\ completed[1] = SubSeq(FixedSequence, 1, 2)

\* C3: a finished run with the render flag set has invoked a render step on
\* the optimized montage producing the output file name, and a run without
\* the flag has invoked none.
RenderWhenFlagged ==
    \A r \in Runs :
        /\ (pc[r] = "done" /\ args[r].render)
              => \E i \in DOMAIN calls[r] :
                    /\ calls[r][i].stage = "render"
                    /\ Norm(calls[r][i].argv[1]) = Under(args[r], "optimized_montage.json")
                    /\ calls[r][i].argv[2] = args[r].output_file_name
        /\ ~args[r].render
              => \A i \in DOMAIN calls[r] : calls[r][i].stage # "render"

\* C4: every invocation carries exactly the arguments of its stage: the tile
\* spec T, the box B and the jar J as given, and the workspace locations
\* W/filterd, W/sifts, W/sift_matches, W/all_correspondent.json and
\* W/optimized_montage.json; the optimizer gets T, not W/filterd.
StageArguments ==
    \A r \in Runs : \A i \in DOMAIN calls[r] :
        LET a == args[r]
            c == calls[r][i]
            v == c.argv
            At(k, name) ==
                Norm(v[k]) = Under(a, name) /\ IsPrefix(a.workspace_dir, v[k])
        IN CASE c.stage = "filter_tiles" ->
                  /\ Len(v) = 3 /\ v[1] = a.tiles_fname
                  /\ At(2, "filterd") /\ v[3] = a.bounding_box
             [] c.stage = "create_sift_features" ->
                  /\ Len(v) = 3 /\ At(1, "filterd")
                  /\ At(2, "sifts") /\ v[3] = a.jar_file
             [] c.stage = "match_sift_features" ->
                  /\ Len(v) = 4 /\ At(1, "filterd") /\ At(2, "sifts")
                  /\ At(3, "sift_matches") /\ v[4] = a.jar_file
             [] c.stage = "json_concat" ->
                  /\ Len(v) = 2 /\ At(1, "sift_matches")
                  /\ At(2, "all_correspondent.json")
             [] c.stage = "optimize_montage_transform" ->
                  /\ Len(v) = 4 /\ At(1, "all_correspondent.json")
                  /\ v[2] = a.tiles_fname
                  /\ At(3, "optimized_montage.json") /\ v[4] = a.jar_file
             [] OTHER -> FALSE

StageArgumentsWitness ==
    /\ pc[1] = "done"
    /\ Len(calls[1]) = 5
    /\ Len(Norm(args[1].workspace_dir)) = 2
    /\ args[1].jar_file # DefaultJar
    /\ args[1].bounding_box # DefaultBox

\* C5: the output paths of the invocations are pairwise distinct locations
\* strictly below the workspace directory, and a location whose content
\* changed during the run was written by the one stage it is the output of.
DistinctOutputs ==
    \A r \in Runs :
        LET W == Norm(args[r].workspace_dir)
            out(i) == Norm(OutPath(calls[r][i]))
        IN /\ \A i, j \in DOMAIN calls[r] : i # j => out(i) # out(j)
           /\ \A i \in DOMAIN calls[r] : IsPrefix(W, out(i)) /\ Len(out(i)) > Len(W)
           /\ \A p \in DOMAIN fs[r] :
                 fs[r][p] # init[r].fs[p]
                    => \E i \in DOMAIN calls[r] :
                          /\ out(i) = p
                          /\ fs[r][p].stage = calls[r][i].stage
                          /\ \A j \in DOMAIN calls[r] : out(j) = p => j = i

DistinctOutputsWitness ==
    /\ pc[1] = "done"
    /\ args[1].render
    /\ Norm(args[1].output_file_name) = Under(args[1], "optimized_montage.json")
    /\ \A i \in 1..5 : fs[1][Norm(OutPath(calls[1][i]))].stage = FixedSequence[i]

\* C6: past the workspace step (unless os.makedirs itself raised on an absent
\* directory) the workspace directory and all its parents exist; and when the
\* directory was there at the start, with or without old artifacts, the step
\* did not fail and the filter stage is the next thing invoked.
WorkspaceEnsured ==
    \A r \in Runs :
        LET W == args[r].workspace_dir
        IN /\ (pc[r] = "call" \/ calls[r] # <<>>) => Ancestors(Norm(W)) \subseteq dirs[r]
           /\ (Exists(init[r].dirs, W) /\ pc[r] # "ensure")
                 => /\ dirs[r] = init[r].dirs
                    /\ IF calls[r] = <<>>
                       THEN pc[r] = "call" /\ ip[r] = 1
                       ELSE calls[r][1].stage = "filter_tiles"

WorkspaceEnsuredWitness ==
    /\ Exists(init[1].dirs, args[1].workspace_dir)
    /\ init[1].fs[Under(args[1], "filterd")] = Stale
    /\ Len(Norm(args[1].workspace_dir)) = 2
    /\ calls[1] # <<>>

\* C7: no invocation has the tile-spec path as its output path, and the
\* content at the tile-spec path is what it was when the run started.
TileSpecReadOnly ==
    \A r \in Runs :
        /\ \A i \in DOMAIN calls[r] : OutPath(calls[r][i]) # args[r].tiles_fname
        /\ Read(fs[r], args[r].tiles_fname) = Read(init[r].fs, args[r].tiles_fname)

(***************************************************************************)
(* Properties of two runs.                                                 *)
(***************************************************************************)
BothTerminal == Runs = {1, 2} /\ Terminal(1) /\ Terminal(2)

\* both runs start in the same world: the same directories, the same tile
\* spec and the same content at the output locations
SameWorld ==
    /\ init[1].dirs = init[2].dirs
    /\ \A p \in OutputsOf(args[1]) \cup {Norm(args[1].tiles_fname)} :
          p \in DOMAIN init[2].fs /\ init[1].fs[p] = init[2].fs[p]

\* C8 as stated: without the render flag, two finished runs whose command
\* lines differ in nothing but the output file name and the jar path have
\* made the same invocations with the same arguments.
RenderConfigUnused ==
    (/\ BothTerminal
     /\ ~args[1].render /\ ~args[2].render
     /\ args[2] = [args[1] EXCEPT !.output_file_name = args[2].output_file_name,
                                  !.jar_file = args[2].jar_file]
     /\ SameWorld)
        => calls[1] = calls[2]

\* C8, amended: without the render flag, two finished runs whose command lines
\* differ in nothing but the output file name have made the same invocations
\* with the same arguments; the jar path is the last argument of every feature
\* extraction, matching and optimization invocation.
OutputNameUnused ==
    /\ (/\ BothTerminal
        /\ ~args[1].render /\ ~args[2].render
        /\ args[2] = [args[1] EXCEPT !.output_file_name = args[2].output_file_name]
        /\ SameWorld)
           => calls[1] = calls[2]
    /\ \A r \in Runs : \A i \in DOMAIN calls[r] :
          calls[r][i].stage \in {"create_sift_features", "match_sift_features",
                                 "optimize_montage_transform"}
             => calls[r][i].argv[Len(calls[r][i].argv)] = args[r].jar_file

OutputNameUnusedWitness ==
    /\ BothTerminal
    /\ args[1].output_file_name # args[2].output_file_name
    /\ args[1].jar_file = args[2].jar_file
    /\ pc[1] = "done" /\ pc[2] = "done"
    /\ Len(calls[2]) = 5

\* the workspace of run r is fresh and can be set up
FreshWorkspace(r) ==
    /\ \A p \in OutputsOf(args[r]) : init[r].fs[p] = NoFile
    /\ args[r].workspace_dir # <<>>
    /\ writable[r]

Artifact(r, name) == fs[r][Under(args[r], name)]

\* C9: two finished runs with the same tile spec (path and content), box and
\* jar, each into a fresh workspace, have invoked the same stages in the same
\* order, ended the same way, and hold identical filtered, correspondence and
\* optimized artifacts.
Determinism ==
    (/\ BothTerminal
     /\ args[1].tiles_fname = args[2].tiles_fname
     /\ Read(init[1].fs, args[1].tiles_fname) = Read(init[2].fs, args[2].tiles_fname)
     /\ args[1].bounding_box = args[2].bounding_box
     /\ args[1].jar_file = args[2].jar_file
     /\ FreshWorkspace(1) /\ FreshWorkspace(2))
        => /\ Stages(1) = Stages(2)
           /\ pc[1] = pc[2]
           /\ \A name \in {"filterd", "all_correspondent.json",
                           "optimized_montage.json"} :
                  Artifact(1, name) = Artifact(2, name)

DeterminismWitness ==
    /\ BothTerminal
    /\ pc[1] = "done" /\ pc[2] = "done"
    /\ Norm(args[1].workspace_dir) # Norm(args[2].workspace_dir)
    /\ args[1].output_file_name # args[2].output_file_name
    /\ Artifact(2, "optimized_montage.json").stage = "optimize_montage_transform"

(***************************************************************************)
(* Termination.                                                            *)
(***************************************************************************)
\* C10: a run that gets to its first stage call and whose invoked stages all
\* return successfully ends having invoked the five stages, whatever the
\* artifacts hold; a finished run has skipped no stage; and a run blocked in a
\* stage that never returns stays blocked there.
CompletesIffStagesReturn ==
    /\ (<>(pc[1] = "call") /\ [](fate[1] \notin {"fail", "hang"}))
          => <>(pc[1] = "done" /\ Stages(1) = FiveStages)
    /\ [](pc[1] = "done" => Stages(1) = FiveStages /\ completed[1] = FiveStages)
    /\ [][(pc[1] = "wait" /\ fate[1] = "hang")
             => pc'[1] = "wait" /\ fate'[1] = "hang" /\ calls'[1] = calls[1]]_vars

\* the box excluded every tile of a non-empty tile spec, and the run went
\* through all five stages
CompletesIffStagesReturnWitness ==
    /\ pc[1] = "done"
    /\ Read(init[1].fs, args[1].tiles_fname).entries > 0
    /\ Artifact(1, "filterd").entries = 0
    /\ Artifact(1, "optimized_montage.json").stage = "optimize_montage_transform"
    /\ Stages(1) = FiveStages

====
